---- MODULE Spec2Model ----
(***************************************************************************)
(* Model of the code parser of the docstring generator:                    *)
(*   src/src/utils/codeParser.ts     parsePythonCode, parseJavaScriptCode, *)
(*                                   insertDocstrings                      *)
(*   src/src/services/codeParser.ts  CodeParser.parseFile and its helpers  *)
(*                                                                         *)
(* A string is a sequence of characters.  The lexemes the code only ever   *)
(* tests as a unit (an identifier or keyword, the triple quotes, the       *)
(* comment markers, the arrow) are single characters of the alphabet.      *)
(* Line numbers and array indexes keep the values the code computes (the   *)
(* arrays of the code are 0-based); At(arr, k) reads element k.            *)
(***************************************************************************)
EXTENDS Integers, Sequences, FiniteSets, TLC

\* ------------------------------------------------------------- alphabet
SP  == " "
NL  == "\n"
TAB == "\t"
Q3  == "\"\"\""
A3  == "'''"
JO  == "/**"
JC  == "*/"
CO  == "/*"
ARROW == "=>"
EOS == ""

Punct == {"(", ")", ":", ",", "=", ARROW, "{", "}", Q3, A3, JO, JC, CO,
          "*", ";", "+", "->", EOS}

\* \s of the regular expressions and of String.prototype.trim
IsSpace(c) == c \in {SP, TAB, NL, "\r"}

\* \w+ : an identifier or keyword
IsWord(c) == ~IsSpace(c) /\ c \notin Punct

\* ------------------------------------------------------- string helpers
\* s[p] for a 1-based position, EOS outside the string
Ch(s, p) == IF p \in 1..Len(s) THEN s[p] ELSE EOS

\* arr[k] of the code (0-based)
At(arr, k) == arr[k + 1]

\* arr.slice(from, to) of the code (0-based, to exclusive)
slice(arr, from, to) == SubSeq(arr, from + 1, to)

\* first position >= p that does not hold a space (Len(s)+1 if none)
RECURSIVE SkipSpace(_, _)
SkipSpace(s, p) ==
  IF p <= Len(s) /\ IsSpace(s[p]) THEN SkipSpace(s, p + 1) ELSE p

\* first position >= p that does not hold a word character
RECURSIVE SkipWord(_, _)
SkipWord(s, p) ==
  IF p <= Len(s) /\ IsWord(s[p]) THEN SkipWord(s, p + 1) ELSE p

\* last position <= p that does not hold a space (0 if none)
RECURSIVE SkipSpaceBack(_, _)
SkipSpaceBack(s, p) ==
  IF p >= 1 /\ IsSpace(s[p]) THEN SkipSpaceBack(s, p - 1) ELSE p

\* s.search(/\S/)
search(s) ==
  LET p == SkipSpace(s, 1) IN IF p > Len(s) THEN -1 ELSE p - 1

\* s.trim()
trim(s) == SubSeq(s, SkipSpace(s, 1), SkipSpaceBack(s, Len(s)))

\* s.includes(c)
includes(s, c) == \E k \in 1..Len(s) : s[k] = c

\* s.indexOf(c), as a 1-based position, 0 when absent
indexOf(s, c) ==
  IF includes(s, c) THEN CHOOSE k \in 1..Len(s) :
                            s[k] = c /\ \A m \in 1..(k - 1) : s[m] # c
  ELSE 0

\* (s.match(/c/g) || []).length
count(s, c) == Cardinality({k \in 1..Len(s) : s[k] = c})

\* s.startsWith(c)
startsWith(s, c) == Len(s) >= 1 /\ s[1] = c

\* s.endsWith(c)
endsWith(s, c) == Len(s) >= 1 /\ s[Len(s)] = c

\* ' '.repeat(n)
RECURSIVE repeat(_, _)
repeat(c, n) == IF n <= 0 THEN <<>> ELSE <<c>> \o repeat(c, n - 1)

\* s.split(sep): the pieces between the separators, at least one piece
RECURSIVE split(_, _)
split(s, sep) ==
  LET k == indexOf(s, sep) IN
  IF k = 0 THEN <<s>>
  ELSE <<SubSeq(s, 1, k - 1)>> \o split(SubSeq(s, k + 1, Len(s)), sep)

\* arr.join(sep)
RECURSIVE join(_, _)
join(arr, sep) ==
  IF Len(arr) = 0 THEN <<>>
  ELSE IF Len(arr) = 1 THEN arr[1]
  ELSE arr[1] \o sep \o join(Tail(arr), sep)

\* arr.splice(start, deleteCount, ...items): the array after the call
splice(arr, start, deleteCount, items) ==
  LET len == Len(arr)
      s   == IF start < 0 THEN (IF len + start < 0 THEN 0 ELSE len + start)
             ELSE IF start > len THEN len ELSE start
      d   == IF deleteCount < 0 THEN 0
             ELSE IF deleteCount > len - s THEN len - s ELSE deleteCount
  IN SubSeq(arr, 1, s) \o items \o SubSeq(arr, s + d + 1, len)

\* an optional string: undefined, or a string value
Undefined == [defined |-> FALSE, text |-> <<>>]
Some(s)   == [defined |-> TRUE, text |-> s]
\* truthiness of an optional string (undefined and '' are falsy)
Truthy(d) == d.defined /\ d.text # <<>>

NoMatch == [ok |-> FALSE, name |-> <<>>, params |-> <<>>]

\* first position q >= p holding ")" with \s* and then c behind it (0 if
\* none): the lazy (.*?)\)\s*: and (.*?)\)\s*=> of the header patterns
RECURSIVE CloseThen(_, _, _)
CloseThen(s, p, c) ==
  IF p > Len(s) THEN 0
  ELSE IF s[p] = ")" /\ Ch(s, SkipSpace(s, p + 1)) = c THEN p
  ELSE CloseThen(s, p + 1, c)

\* paramsStr.split(',').map(p => p.trim().split('=')[0].split(':')[0].trim())
RECURSIVE paramNames(_)
paramNames(segs) ==
  IF segs = <<>> THEN <<>>
  ELSE <<trim(split(split(trim(segs[1]), "=")[1], ":")[1])>>
       \o paramNames(Tail(segs))

\* arr.filter(keep) for the parameter lists: keep the names in `names`
\* that are non-empty and not in `drop`
RECURSIVE filterNames(_, _)
filterNames(names, drop) ==
  IF names = <<>> THEN <<>>
  ELSE (IF names[1] # <<>> /\ names[1] \notin drop THEN <<names[1]>> ELSE <<>>)
       \o filterNames(Tail(names), drop)

\* ------------------------------------------- utils/codeParser.ts: Python
\* funcPattern = /^\s*(async\s+)?def\s+(\w+)\s*\((.*?)\)\s*:/
pyFuncPattern(line) ==
  LET p0 == SkipSpace(line, 1)
      hasAsync == Ch(line, p0) = "async" /\ IsSpace(Ch(line, p0 + 1))
      p1 == IF hasAsync THEN SkipSpace(line, p0 + 1) ELSE p0
      p2 == p1 + 1
      p3 == SkipSpace(line, p2)
      p4 == SkipWord(line, p3)
      p5 == SkipSpace(line, p4)
      p6 == CloseThen(line, p5 + 1, ":")
  IN IF Ch(line, p1) = "def" /\ p3 > p2 /\ p4 > p3 /\ Ch(line, p5) = "("
        /\ p6 > 0
     THEN [ok |-> TRUE, name |-> SubSeq(line, p3, p4 - 1),
           params |-> SubSeq(line, p5 + 1, p6 - 1)]
     ELSE NoMatch

\* classPattern = /^\s*class\s+(\w+)(\(.*?\))?\s*:/
pyClassPattern(line) ==
  LET p0 == SkipSpace(line, 1)
      p1 == p0 + 1
      p2 == SkipSpace(line, p1)
      p3 == SkipWord(line, p2)
  IN IF Ch(line, p0) = "class" /\ p2 > p1 /\ p3 > p2
        /\ (Ch(line, SkipSpace(line, p3)) = ":"
            \/ (Ch(line, p3) = "(" /\ CloseThen(line, p3 + 1, ":") > 0))
     THEN [ok |-> TRUE, name |-> SubSeq(line, p2, p3 - 1), params |-> <<>>]
     ELSE NoMatch

\* the positions where ^ matches under the m flag
LineStarts(s) == {1} \cup {k + 1 : k \in {m \in 1..Len(s) : s[m] = NL}}

\* the first position > p that holds c (0 if none)
RECURSIVE NextAfter(_, _, _)
NextAfter(s, p, c) ==
  IF p >= Len(s) THEN 0
  ELSE IF s[p + 1] = c THEN p + 1 ELSE NextAfter(s, p + 1, c)

\* docstringPattern = /^\s*"""([\s\S]*?)"""/m : group 1 of the leftmost match
docstringPattern(body) ==
  LET cand == {p \in LineStarts(body) :
                 /\ Ch(body, SkipSpace(body, p)) = Q3
                 /\ NextAfter(body, SkipSpace(body, p), Q3) > 0}
  IN IF cand = {} THEN Undefined
     ELSE LET p == CHOOSE x \in cand : \A y \in cand : x <= y
              q == SkipSpace(body, p)
          IN Some(SubSeq(body, q + 1, NextAfter(body, q, Q3) - 1))

\* pyBodyEnd with the dedent test nextIndent < indent: a line at the
\* header's own indentation no longer ends the body
RECURSIVE pyBodyEndStrict(_, _, _)
pyBodyEndStrict(lines, endLine, indent) ==
  IF endLine < Len(lines)
     /\ ~(trim(At(lines, endLine)) # <<>>
          /\ search(At(lines, endLine)) < indent)
  THEN pyBodyEndStrict(lines, endLine + 1, indent)
  ELSE endLine

\* pyBodyEnd without the nextLine.trim() test: a blank line ends the body
RECURSIVE pyBodyEndAtBlank(_, _, _)
pyBodyEndAtBlank(lines, endLine, indent) ==
  IF endLine < Len(lines) /\ ~(search(At(lines, endLine)) <= indent)
  THEN pyBodyEndAtBlank(lines, endLine + 1, indent)
  ELSE endLine

\* the body loop of parsePythonCode (lines 32-41 and 71-80): the value of
\* endLine when the loop is left
RECURSIVE pyBodyEnd(_, _, _)
pyBodyEnd(lines, endLine, indent) ==
  IF endLine < Len(lines)
     /\ ~(trim(At(lines, endLine)) # <<>>
          /\ search(At(lines, endLine)) <= indent)
  THEN pyBodyEnd(lines, endLine + 1, indent)
  ELSE endLine

\* body += nextLine + '\n' for the lines from..to-1
RECURSIVE bodyText(_, _, _)
bodyText(lines, from, to) ==
  IF from >= to THEN <<>>
  ELSE At(lines, from) \o <<NL>> \o bodyText(lines, from + 1, to)

\* docstringMatch ? docstringMatch[1].trim() : undefined
trimmedDoc(m) == IF m.defined THEN Some(trim(m.text)) ELSE Undefined

\* pyRecord that stores the loop variable endLine itself (one past the body)
pyRecordPastEnd(name, params, body, i, endLine, type, docstring) ==
  [name |-> name, params |-> params, body |-> trim(body), startLine |-> i,
   endLine |-> endLine, type |-> type, docstring |-> docstring]

\* functions.push({...}) of lines 47-55 and 86-94, for the loop variable
\* endLine
pyRecord(name, params, body, i, endLine, type, docstring) ==
  [name |-> name, params |-> params, body |-> trim(body), startLine |-> i,
   endLine |-> endLine - 1, type |-> type, docstring |-> docstring]

RECURSIVE pyScan(_, _, _)

\* the record is pushed and the scan goes on at the line behind the header
\* (i++ in the place of i = endLine)
pyPushNext(lines, i, functions, name, params, type, endLine, body) ==
  pyScan(lines, i + 1,
         Append(functions,
                pyRecord(name, params, body, i, endLine, type,
                         trimmedDoc(docstringPattern(body)))))

\* the end of a matched branch (lines 42-58 and 81-97) for the loop variable
\* endLine and the body text: the record is pushed and the scan goes on at
\* i = endLine
pyPush(lines, i, functions, name, params, type, endLine, body) ==
  pyScan(lines, endLine,
         Append(functions,
                pyRecord(name, params, body, i, endLine, type,
                         trimmedDoc(docstringPattern(body)))))

\* a matched branch (lines 19-41 and 64-80): the body loop starts behind
\* the header
pyBranch(lines, i, functions, name, params, type, endLine) ==
  pyPush(lines, i, functions, name, params, type, endLine,
         bodyText(lines, i + 1, endLine))

\* one iteration of the while loop for line i, given the results of the two
\* line.match calls
pyAt(lines, i, functions, line, funcMatch, classMatch) ==
  IF funcMatch.ok THEN
    pyBranch(lines, i, functions, funcMatch.name,
             filterNames(paramNames(split(funcMatch.params, ",")),
                         {<<"self">>}),
             "function", pyBodyEnd(lines, i + 1, search(line)))
  ELSE IF classMatch.ok THEN
    pyBranch(lines, i, functions, classMatch.name, <<>>, "class",
             pyBodyEnd(lines, i + 1, search(line)))
  ELSE pyScan(lines, i + 1, functions)

\* the while loop of parsePythonCode from index i on
pyScan(lines, i, functions) ==
  IF i >= Len(lines) THEN functions
  ELSE pyAt(lines, i, functions, At(lines, i),
            pyFuncPattern(At(lines, i)), pyClassPattern(At(lines, i)))

parsePythonCode(code) == pyScan(split(code, NL), 0, <<>>)

\* --------------------------------------- utils/codeParser.ts: JavaScript
\* position behind an optional `word\s+` group that starts at p
OptWordSp(s, p, words) ==
  IF Ch(s, p) \in words /\ IsSpace(Ch(s, p + 1)) THEN SkipSpace(s, p + 1)
  ELSE p

\* funcPattern = /^\s*(export\s+)?(async\s+)?function\s+(\w+)\s*\((.*?)\)/
jsFuncPattern(line) ==
  LET p0 == SkipSpace(line, 1)
      p1 == OptWordSp(line, OptWordSp(line, p0, {"export"}), {"async"})
      p2 == p1 + 1
      p3 == SkipSpace(line, p2)
      p4 == SkipWord(line, p3)
      p5 == SkipSpace(line, p4)
      p6 == NextAfter(line, p5, ")")
  IN IF Ch(line, p1) = "function" /\ p3 > p2 /\ p4 > p3
        /\ Ch(line, p5) = "(" /\ p6 > 0
     THEN [ok |-> TRUE, name |-> SubSeq(line, p3, p4 - 1),
           params |-> SubSeq(line, p5 + 1, p6 - 1)]
     ELSE NoMatch

\* arrowPattern =
\*   /^\s*(export\s+)?(const|let|var)\s+(\w+)\s*=\s*(async\s*)?\((.*?)\)\s*=>/
arrowPattern(line) ==
  LET p0 == SkipSpace(line, 1)
      p1 == OptWordSp(line, p0, {"export"})
      p2 == p1 + 1
      p3 == SkipSpace(line, p2)
      p4 == SkipWord(line, p3)
      p5 == SkipSpace(line, p4)
      p6 == SkipSpace(line, p5 + 1)
      p7 == IF Ch(line, p6) = "async" THEN SkipSpace(line, p6 + 1) ELSE p6
      p8 == CloseThen(line, p7 + 1, ARROW)
  IN IF Ch(line, p1) \in {"const", "let", "var"} /\ p3 > p2 /\ p4 > p3
        /\ Ch(line, p5) = "=" /\ Ch(line, p7) = "(" /\ p8 > 0
     THEN [ok |-> TRUE, name |-> SubSeq(line, p3, p4 - 1),
           params |-> SubSeq(line, p7 + 1, p8 - 1)]
     ELSE NoMatch

\* classPattern = /^\s*(export\s+)?class\s+(\w+)/
jsClassPattern(line) ==
  LET p0 == SkipSpace(line, 1)
      p1 == OptWordSp(line, p0, {"export"})
      p2 == p1 + 1
      p3 == SkipSpace(line, p2)
      p4 == SkipWord(line, p3)
  IN IF Ch(line, p1) = "class" /\ p3 > p2 /\ p4 > p3
     THEN [ok |-> TRUE, name |-> SubSeq(line, p3, p4 - 1), params |-> <<>>]
     ELSE NoMatch

\* (\w+)\s*\((.*?)\)\s*{ of methodPattern from position p on
methodAt(line, p) ==
  LET p1 == SkipWord(line, p)
      p2 == SkipSpace(line, p1)
      p3 == CloseThen(line, p2 + 1, "{")
  IN IF p1 > p /\ Ch(line, p2) = "(" /\ p3 > 0
     THEN [ok |-> TRUE, name |-> SubSeq(line, p, p1 - 1),
           params |-> SubSeq(line, p2 + 1, p3 - 1)]
     ELSE NoMatch

\* methodPattern = /^\s*(async\s+)?(\w+)\s*\((.*?)\)\s*{/ (line 113; the
\* scan loop never matches a line against it)
methodPattern(line) ==
  LET p0 == SkipSpace(line, 1)
      p1 == OptWordSp(line, p0, {"async"})
  IN IF methodAt(line, p1).ok THEN methodAt(line, p1) ELSE methodAt(line, p0)

\* jsDocPattern = /\/\*\*([\s\S]*?)\*\// : group 1 of the leftmost match
jsDocPattern(s) ==
  LET q == indexOf(s, JO)
      r == IF q = 0 THEN 0 ELSE NextAfter(s, q, JC)
  IN IF r = 0 THEN Undefined ELSE Some(SubSeq(s, q + 1, r - 1))

\* the lookback window of the JSDoc detection and removal (i - 10)
LookBack == 10

Max(a, b) == IF a >= b THEN a ELSE b

\* "Check for JSDoc" (lines 151-159, 204-212, 255-263)
jsDocBefore(lines, i) ==
  IF i > 0
  THEN trimmedDoc(jsDocPattern(join(slice(lines, Max(0, i - LookBack), i),
                                    <<NL>>)))
  ELSE Undefined

\* "Find opening brace if not on same line" (lines 137-140): endLine after
\* the loop
RECURSIVE jsFindBrace(_, _, _)
jsFindBrace(lines, startLine, endLine) ==
  IF endLine < Len(lines) /\ ~includes(At(lines, startLine), "{")
     /\ ~includes(At(lines, endLine), "{")
  THEN jsFindBrace(lines, startLine, endLine + 1)
  ELSE endLine

\* "Extract function body" (lines 143-149, 195-201, 247-253): endLine after
\* the loop
RECURSIVE jsBodyEnd(_, _, _)
jsBodyEnd(lines, endLine, braceCount) ==
  IF endLine < Len(lines) /\ braceCount > 0
  THEN jsBodyEnd(lines, endLine + 1,
                 braceCount + count(At(lines, endLine), "{")
                            - count(At(lines, endLine), "}"))
  ELSE endLine

\* "Find opening brace" of the class branch (lines 238-244): endLine after
\* the loop
RECURSIVE jsClassBrace(_, _)
jsClassBrace(lines, endLine) ==
  IF endLine < Len(lines) /\ ~includes(At(lines, endLine), "{")
  THEN jsClassBrace(lines, endLine + 1)
  ELSE endLine

\* the record with the loop variable endLine stored as it is (one past the
\* last body line)
jsRecordPastEnd(name, params, body, i, endLine, type, docstring) ==
  [name |-> name, params |-> params, body |-> trim(body), startLine |-> i,
   endLine |-> endLine, type |-> type, docstring |-> docstring]

\* functions.push({...}) of lines 161-169, 214-222 and 265-273, for the
\* loop variable endLine
jsRecord(name, params, body, i, endLine, type, docstring) ==
  [name |-> name, params |-> params, body |-> trim(body), startLine |-> i,
   endLine |-> endLine - 1, type |-> type, docstring |-> docstring]

RECURSIVE jsScan(_, _, _)

\* the end of a matched branch (lines 151-172, 204-225 and 255-276) for
\* the loop variable endLine and the body text
jsPush(lines, i, functions, name, params, type, endLine, body) ==
  jsScan(lines, endLine,
         Append(functions,
                jsRecord(name, params, body, i, endLine, type,
                         jsDocBefore(lines, i))))

\* the function declaration branch (lines 124-149) from the index fOpen the
\* opening-brace loop stops at
jsFuncBranch(lines, i, functions, funcMatch, fOpen, fEnd) ==
  jsPush(lines, i, functions, funcMatch.name,
         filterNames(paramNames(split(funcMatch.params, ",")), {}),
         "function", fEnd, bodyText(lines, fOpen, fEnd))

\* the arrow function branch (lines 178-202); single is the test of line 190
jsArrowBranch(lines, i, functions, line, arrowMatch, single, aEnd) ==
  jsPush(lines, i, functions, arrowMatch.name,
         filterNames(paramNames(split(arrowMatch.params, ",")), {}),
         "function", aEnd,
         IF single THEN SubSeq(line, indexOf(line, ARROW) + 1, Len(line))
         ELSE bodyText(lines, i + 1, aEnd))

\* the class branch (lines 231-253) from the index cOpen the opening-brace
\* loop stops at
jsClassBranch(lines, i, functions, classMatch, cOpen, cEnd) ==
  jsPush(lines, i, functions, classMatch.name, <<>>, "class", cEnd,
         bodyText(lines, cOpen, cEnd))

\* braceCount when the class branch enters its body loop
classBraces(lines, cOpen) == IF cOpen < Len(lines) THEN 1 ELSE 0

\* one iteration of the while loop for line i, given the results of the
\* three line.match calls
jsAt(lines, i, functions, line, funcMatch, arrowMatch, classMatch, fOpen, single, cOpen) ==
  IF funcMatch.ok THEN
    jsFuncBranch(lines, i, functions, funcMatch, fOpen,
                 jsBodyEnd(lines, fOpen, 1))
  ELSE IF arrowMatch.ok THEN
    jsArrowBranch(lines, i, functions, line, arrowMatch, single,
                  IF single THEN i + 1 ELSE jsBodyEnd(lines, i + 1, 1))
  ELSE IF classMatch.ok THEN
    jsClassBranch(lines, i, functions, classMatch, cOpen,
                  jsBodyEnd(lines, cOpen, classBraces(lines, cOpen)))
  ELSE jsScan(lines, i + 1, functions)

\* the while loop of parseJavaScriptCode from index i on
jsScan(lines, i, functions) ==
  IF i >= Len(lines) THEN functions
  ELSE jsAt(lines, i, functions, At(lines, i),
            jsFuncPattern(At(lines, i)), arrowPattern(At(lines, i)),
            jsClassPattern(At(lines, i)),
            jsFindBrace(lines, i, i + 1),
            includes(At(lines, i), ARROW)
              /\ ~endsWith(trim(At(lines, i)), ARROW),
            jsClassBrace(lines, i + 1))

parseJavaScriptCode(code) == jsScan(split(code, NL), 0, <<>>)

\* ------------------------------------ utils/codeParser.ts: insertDocstrings
\* a lookup that does not compare the name: the last entry is returned for
\* every name
mapGetAny(docstrings, name) ==
  IF docstrings = <<>> THEN Undefined
  ELSE Some(docstrings[Len(docstrings)].docstring)

\* docstringMap.get(name) for docstringMap = new Map(docstrings.map(...)):
\* the last entry of that name wins
RECURSIVE mapGet(_, _)
mapGet(docstrings, name) ==
  IF docstrings = <<>> THEN Undefined
  ELSE IF docstrings[Len(docstrings)].name = name
       THEN Some(docstrings[Len(docstrings)].docstring)
       ELSE mapGet(SubSeq(docstrings, 1, Len(docstrings) - 1), name)

\* the Python template literal of line 307
pyFormat(indent, newDocstring) ==
  indent \o <<Q3, NL>> \o indent
  \o join(split(newDocstring, NL), <<NL>> \o indent)
  \o <<NL>> \o indent \o <<Q3>>

\* the JavaScript template literal of line 332
jsFormat(indent, newDocstring) ==
  indent \o <<JO, NL>> \o indent \o <<SP, "*", SP>>
  \o join(split(newDocstring, NL), <<NL>> \o indent \o <<SP, "*", SP>>)
  \o <<NL>> \o indent \o <<SP, JC>>

\* the while loop of lines 317-327: the index j at which the splice of
\* line 321 happens, or -1 when the loop runs off the end of the array
RECURSIVE pyDocClose(_, _, _)
pyDocClose(lines, j, inDocstring) ==
  IF j >= Len(lines) THEN -1
  ELSE IF startsWith(trim(At(lines, j)), Q3)
       THEN IF inDocstring THEN j ELSE pyDocClose(lines, j + 1, TRUE)
       ELSE pyDocClose(lines, j + 1, inDocstring)

\* the for loop of line 338: the first j, going down from `from` to `low`,
\* whose line includes "*/", or -1
RECURSIVE jsDocEnd(_, _, _)
jsDocEnd(lines, j, low) ==
  IF j < low THEN -1
  ELSE IF includes(trim(At(lines, j)), JC) THEN j
  ELSE jsDocEnd(lines, j - 1, low)

\* the while loop of lines 343-345: k after the loop (-1 when no line
\* includes the opening marker)
RECURSIVE jsDocStart(_, _)
jsDocStart(lines, k) ==
  IF k >= 0 /\ ~includes(trim(At(lines, k)), JO)
  THEN jsDocStart(lines, k - 1)
  ELSE k

\* one iteration of the for loop of insertDocstrings (lines 299-353) for
\* the record func: the array after it, or threw when lines[func.startLine]
\* is undefined and .search is called on it
insertOne(lines, func, language, docstrings) ==
  LET newDocstring == mapGet(docstrings, func.name)
      indent == repeat(SP, search(At(lines, func.startLine))
                           + (IF language = "python" THEN 4 ELSE 2))
      \* python branch
      pyInsertLine == func.startLine + 1
      pyJ == IF Truthy(func.docstring)
             THEN pyDocClose(lines, pyInsertLine, FALSE) ELSE -1
      pyRemoved == IF pyJ >= 0
                   THEN splice(lines, pyInsertLine, pyJ - pyInsertLine + 1,
                               <<>>)
                   ELSE lines
      \* javascript branch
      jsJ == jsDocEnd(lines, func.startLine - 1,
                      Max(0, func.startLine - LookBack))
      jsK == jsDocStart(lines, jsJ)
      jsRemoved == IF jsJ >= 0 THEN splice(lines, jsK, jsJ - jsK + 1, <<>>)
                   ELSE lines
      jsInsertLine == IF jsJ >= 0 THEN jsK ELSE func.startLine
  IN IF ~Truthy(newDocstring) THEN [lines |-> lines, threw |-> FALSE]
     ELSE IF func.startLine >= Len(lines)
          THEN [lines |-> lines, threw |-> TRUE]
     ELSE IF language = "python"
          THEN [lines |-> splice(pyRemoved, pyInsertLine, 0,
                                 <<pyFormat(indent, newDocstring.text)>>),
                threw |-> FALSE]
          ELSE [lines |-> splice(jsRemoved, jsInsertLine, 0,
                                 <<jsFormat(indent, newDocstring.text)>>),
                threw |-> FALSE]

\* language === 'python' ? parsePythonCode(code) : parseJavaScriptCode(code)
parse(code, language) ==
  IF language = "python" THEN parsePythonCode(code)
  ELSE parseJavaScriptCode(code)

\* ------------------------------------------ services/codeParser.ts helpers
\* content.split(/\r?\n/)
RECURSIVE dropCR(_)
dropCR(pieces) ==
  IF Len(pieces) <= 1 THEN pieces
  ELSE <<IF endsWith(pieces[1], "\r")
         THEN SubSeq(pieces[1], 1, Len(pieces[1]) - 1) ELSE pieces[1]>>
       \o dropCR(Tail(pieces))

splitLines(content) == dropCR(split(content, NL))

\* l.startsWith(prefix) for a string prefix
hasPrefix(l, prefix) ==
  Len(l) >= Len(prefix) /\ SubSeq(l, 1, Len(prefix)) = prefix

\* the first position >= p that holds c, or Len(s) + 1
RECURSIVE FirstFrom(_, _, _)
FirstFrom(s, p, c) ==
  IF p > Len(s) \/ s[p] = c THEN p ELSE FirstFrom(s, p + 1, c)

\* /^(\w+)(\s*:\s*([^=]+))?(\s*=\s*(.+))?/.exec(param) and the assignments
\* of lines 196-216
parseOneParameter(param) ==
  LET p  == SkipWord(param, 1)
      q  == SkipSpace(param, p)
      e  == FirstFrom(param, q + 1, "=")
      hasType == Ch(param, q) = ":" /\ e > q + 1
      d  == IF hasType THEN e ELSE q
      hasDefault == Ch(param, d) = "=" /\ Len(param) > d
  IN IF p = 1 THEN [name |-> param, type |-> Undefined,
                    defaultValue |-> Undefined]
     ELSE [name |-> SubSeq(param, 1, p - 1),
           type |-> IF hasType THEN Some(trim(SubSeq(param, q + 1, e - 1)))
                    ELSE Undefined,
           defaultValue |-> IF hasDefault
                            THEN Some(trim(SubSeq(param, d + 1, Len(param))))
                            ELSE Undefined]

\* the for loop without `if (!param) continue`
RECURSIVE parseParamListAll(_)
parseParamListAll(paramList) ==
  IF paramList = <<>> THEN <<>>
  ELSE <<parseOneParameter(trim(paramList[1]))>>
       \o parseParamListAll(Tail(paramList))

\* the for loop of parseFunctionParameters over paramList
RECURSIVE parseParamList(_)
parseParamList(paramList) ==
  IF paramList = <<>> THEN <<>>
  ELSE (IF trim(paramList[1]) = <<>> THEN <<>>
        ELSE <<parseOneParameter(trim(paramList[1]))>>)
       \o parseParamList(Tail(paramList))

\* CodeParser.parseFunctionParameters (both language branches use the same
\* pattern)
parseFunctionParameters(paramsRaw) ==
  IF trim(paramsRaw) = <<>> THEN <<>>
  ELSE parseParamList(split(paramsRaw, ","))

\* functions.push({...}) of lines 101-110 and 168-177, with
\* startLine = i + 1 of lines 57 and 135
svcRecord(name, paramsRaw, returnType, docstring, i, endLine, codeLines) ==
  [name |-> name, parameters |-> parseFunctionParameters(paramsRaw),
   returnType |-> returnType, docstring |-> docstring, startLine |-> i + 1,
   endLine |-> endLine, originalCode |-> join(codeLines, <<NL>>),
   isSelected |-> TRUE]

\* ------------------------------ services/codeParser.ts: Python extraction
\* the part of funcRegex behind the optional decorator group:
\*   \s*def\s+(\w+)\s*\(([^)]*)\)\s*(->\s*([^:]+))?:
svcPyRest(line, p) ==
  LET p1 == SkipSpace(line, p)
      p2 == p1 + 1
      p3 == SkipSpace(line, p2)
      p4 == SkipWord(line, p3)
      p5 == SkipSpace(line, p4)
      p6 == NextAfter(line, p5, ")")
      t  == SkipSpace(line, p6 + 1)
      v  == FirstFrom(line, p6 + 1, "->")
      c  == FirstFrom(line, v + 1, ":")
      arrow == v = t /\ c <= Len(line) /\ c > v + 1
  IN IF Ch(line, p1) = "def" /\ p3 > p2 /\ p4 > p3 /\ Ch(line, p5) = "("
        /\ p6 > 0 /\ (Ch(line, t) = ":" \/ arrow)
     THEN [ok |-> TRUE, name |-> SubSeq(line, p3, p4 - 1),
           params |-> SubSeq(line, p5 + 1, p6 - 1),
           returnType |-> IF Ch(line, t) = ":" THEN Undefined
                          ELSE Some(trim(SubSeq(line, v + 1, c - 1)))]
     ELSE [ok |-> FALSE, name |-> <<>>, params |-> <<>>,
           returnType |-> Undefined]

\* funcRegex =
\*  /^(\s*)(@\w+.*)?\s*def\s+(\w+)\s*\(([^)]*)\)\s*(->\s*([^:]+))?:/
\* with indent = match[1]; the greedy .* of the decorator group ends at the
\* last position from which the rest matches
svcPyFuncRegex(line) ==
  LET p0 == SkipSpace(line, 1)
      deco == {p \in (p0 + 2)..(Len(line) + 1) :
                 Ch(line, p0) = "@" /\ IsWord(Ch(line, p0 + 1))
                 /\ svcPyRest(line, p).ok}
      m == IF deco # {}
           THEN svcPyRest(line, CHOOSE p \in deco : \A r \in deco : r <= p)
           ELSE svcPyRest(line, p0)
  IN [ok |-> m.ok, indent |-> SubSeq(line, 1, p0 - 1), name |-> m.name,
      params |-> m.params, returnType |-> m.returnType]

\* the for loop over k of lines 82-91: the state after consuming the lines
\* of a docstring that does not close on its first line
RECURSIVE svcDocLoop(_, _, _, _)
svcDocLoop(lines, k, docStart, st) ==
  IF k >= Len(lines) THEN st
  ELSE LET lk == At(lines, k)
           pushed == [st EXCEPT !.codeLines = Append(@, lk),
                                !.endLine = k + 1]
       IN IF includes(lk, docStart)
          THEN [pushed EXCEPT !.doc = @ \o <<NL>>
                                \o SubSeq(lk, 1, indexOf(lk, docStart) - 1)]
          ELSE svcDocLoop(lines, k + 1, docStart,
                          [pushed EXCEPT !.doc = @ \o <<NL>> \o lk])

\* the docstring detection of lines 74-93 on line l, whose delimiter is
\* docStart and whose text behind the delimiter is rest
svcDocFound(lines, j, docStart, rest, st1) ==
  IF includes(rest, docStart)
  THEN [st1 EXCEPT !.doc = SubSeq(rest, 1, indexOf(rest, docStart) - 1)]
  ELSE svcDocLoop(lines, j + 1, docStart, [st1 EXCEPT !.doc = rest])

\* docstring = doc.trim(); foundDocstring = true (lines 92-93)
svcDocDone(st2) ==
  [st2 EXCEPT !.docstring = trim(st2.doc), !.foundDocstring = TRUE]

\* docStart of line 74
svcDocStart(l) == IF includes(l, Q3) THEN Q3 ELSE A3

\* l.substring(l.indexOf(docStart) + 3) of line 76
svcDocRest(l, docStart) == SubSeq(l, indexOf(l, docStart) + 1, Len(l))

\* lines 70-95: an indented line is pushed and searched for a docstring
svcPyIndented(lines, j, l, st, st1) ==
  IF ~st.foundDocstring /\ Ch(l, SkipSpace(l, 1)) \in {Q3, A3}
  THEN svcDocDone(svcDocFound(lines, j, svcDocStart(l),
                              svcDocRest(l, svcDocStart(l)), st1))
  ELSE st1

\* the for loop over j of lines 63-99 ("Find function body by
\* indentation"): the loop state when the loop is left
RECURSIVE svcPyBody(_, _, _, _)
svcPyBody(lines, indent, j, st) ==
  IF j >= Len(lines) THEN st
  ELSE IF trim(At(lines, j)) = <<>>
  THEN svcPyBody(lines, indent, j + 1,
                 [st EXCEPT !.codeLines = Append(@, At(lines, j))])
  ELSE IF hasPrefix(At(lines, j), indent \o <<SP>>)
          \/ hasPrefix(At(lines, j), indent \o <<TAB>>)
  THEN svcPyBody(lines, indent, j + 1,
                 svcPyIndented(lines, j, At(lines, j), st,
                               [st EXCEPT
                                  !.codeLines = Append(@, At(lines, j)),
                                  !.endLine = j + 1]))
  ELSE st

RECURSIVE svcPyScan(_, _, _)

\* the record is pushed and the scan goes on at the line behind the header
\* (without i = endLine - 1)
svcPyPushNext(lines, i, functions, match, st) ==
  svcPyScan(lines, i + 1,
            Append(functions,
                   svcRecord(Some(match.name), match.params,
                             match.returnType, st.docstring, i, st.endLine,
                             st.codeLines)))

\* lines 100-111: the record is pushed and the scan goes on at i = endLine
svcPyPush(lines, i, functions, match, st) ==
  svcPyScan(lines, st.endLine,
            Append(functions,
                   svcRecord(Some(match.name), match.params,
                             match.returnType, st.docstring, i, st.endLine,
                             st.codeLines)))

\* one iteration of the while loop for line i, given the result of
\* funcRegex.exec
svcPyAt(lines, i, functions, line, match) ==
  IF match.ok
  THEN svcPyPush(lines, i, functions, match,
                 svcPyBody(lines, match.indent, i + 1,
                           [codeLines |-> <<line>>, endLine |-> i + 1,
                            doc |-> <<>>, docstring |-> <<>>,
                            foundDocstring |-> FALSE]))
  ELSE svcPyScan(lines, i + 1, functions)

\* the while loop of extractPythonFunctions from index i on
svcPyScan(lines, i, functions) ==
  IF i >= Len(lines) THEN functions
  ELSE svcPyAt(lines, i, functions, At(lines, i),
               svcPyFuncRegex(At(lines, i)))

extractPythonFunctions(content) == svcPyScan(splitLines(content), 0, <<>>)

\* -------------------------- services/codeParser.ts: JavaScript extraction
\* first position >= p that holds a space or "{" (or Len(s) + 1): the end
\* of a [^\s{]+ run
RECURSIVE SkipType(_, _)
SkipType(s, p) ==
  IF p <= Len(s) /\ ~IsSpace(s[p]) /\ s[p] # "{" THEN SkipType(s, p + 1)
  ELSE p

\* the common tail of the three alternatives, behind the ")" at position r:
\*   \s*(:\s*([^\s{]+))?\s*{
svcJsTail(line, r) ==
  LET t == SkipSpace(line, r + 1)
      u == SkipSpace(line, t + 1)
      v == SkipType(line, u)
      typed == Ch(line, t) = ":" /\ v > u /\ Ch(line, SkipSpace(line, v)) = "{"
  IN [ok |-> Ch(line, t) = "{" \/ typed,
      returnType |-> IF typed THEN Some(SubSeq(line, u, v - 1))
                     ELSE Undefined]

NoJsMatch == [ok |-> FALSE, alt |-> 0, async |-> Undefined, name |-> <<>>,
              params |-> <<>>, returnType |-> Undefined]

\* one alternative of funcRegex from position p on, with the optional
\* (async\s+)? group taken (withAsync) or skipped:
\*   1: function\s+(\w+)\s*\(([^)]*)\) tail
\*   2: (\w+)\s*=\s*\(([^)]*)\)\s*=> tail
\*   3: (\w+)\s*\(([^)]*)\) tail
svcJsAlt(line, p, alt, withAsync) ==
  LET a  == IF withAsync THEN SkipSpace(line, p + 1) ELSE p
      asyncOk == ~withAsync
                 \/ (Ch(line, p) = "async" /\ IsSpace(Ch(line, p + 1)))
      n0 == IF alt = 1 THEN SkipSpace(line, a + 1) ELSE a
      n1 == SkipWord(line, n0)
      o0 == SkipSpace(line, n1)
      o  == IF alt = 2 THEN SkipSpace(line, o0 + 1) ELSE o0
      r  == NextAfter(line, o, ")")
      w  == SkipSpace(line, r + 1)
      tail == svcJsTail(line, IF alt = 2 THEN w ELSE r)
      headOk == /\ asyncOk
                /\ (alt = 1 => Ch(line, a) = "function" /\ n0 > a + 1)
                /\ n1 > n0
                /\ (alt = 2 => Ch(line, o0) = "=")
                /\ Ch(line, o) = "(" /\ r > 0
                /\ (alt = 2 => Ch(line, w) = ARROW)
  IN IF headOk /\ tail.ok
     THEN [ok |-> TRUE, alt |-> alt,
           async |-> IF withAsync THEN Some(SubSeq(line, p, a - 1))
                     ELSE Undefined,
           name |-> SubSeq(line, n0, n1 - 1),
           params |-> SubSeq(line, o + 1, r - 1),
           returnType |-> tail.returnType]
     ELSE NoJsMatch

\* the first successful attempt, in the order the regex engine tries them:
\* alternatives left to right, the async group taken before skipped
RECURSIVE firstOk(_)
firstOk(attempts) ==
  IF attempts = <<>> THEN NoJsMatch
  ELSE IF attempts[1].ok THEN attempts[1] ELSE firstOk(Tail(attempts))

\* funcRegex of extractJavaScriptFunctions: ^(\s*)(\/\*\*.*)? in front of
\* each alternative; the greedy .* of the comment group ends at the last
\* position from which the alternative matches
svcJsFuncRegex(line) ==
  LET p0 == SkipSpace(line, 1)
      alts == {1, 2, 3}
      cmt(alt) == {p \in (p0 + 1)..(Len(line) + 1) :
                     Ch(line, p0) = JO
                     /\ (svcJsAlt(line, p, alt, TRUE).ok
                         \/ svcJsAlt(line, p, alt, FALSE).ok)}
      last(S) == CHOOSE p \in S : \A r \in S : r <= p
      try(alt) == IF cmt(alt) # {}
                  THEN firstOk(<<svcJsAlt(line, last(cmt(alt)), alt, TRUE),
                                 svcJsAlt(line, last(cmt(alt)), alt, FALSE)>>)
                  ELSE firstOk(<<svcJsAlt(line, p0, alt, TRUE),
                                 svcJsAlt(line, p0, alt, FALSE)>>)
  IN firstOk(<<try(1), try(2), try(3)>>)

\* a || b for optional strings
orElse(a, b) == IF Truthy(a) THEN a ELSE b

\* s.replace(c, '') : the first occurrence of c removed
removeFirst(s, c) ==
  LET k == indexOf(s, c) IN
  IF k = 0 THEN s ELSE SubSeq(s, 1, k - 1) \o SubSeq(s, k + 1, Len(s))

\* the while loop of lines 143-146: doc after walking up from index k
RECURSIVE svcJsDocUp(_, _, _)
svcJsDocUp(lines, k, doc) ==
  IF k >= 0 /\ ~endsWith(trim(At(lines, k)), JC)
  THEN svcJsDocUp(lines, k - 1, trim(At(lines, k)) \o <<NL>> \o doc)
  ELSE doc

\* "JSDoc detection" (lines 138-148)
svcJsDoc(lines, i) ==
  IF i > 0 /\ startsWith(trim(At(lines, i - 1)), JO)
  THEN svcJsDocUp(lines, i - 2,
                  trim(removeFirst(removeFirst(trim(At(lines, i - 1)), JO),
                                   JC)))
  ELSE <<>>

\* "Find function body by braces" (lines 150-166): the loop state when the
\* loop is left
RECURSIVE svcJsBody(_, _, _)
svcJsBody(lines, j, st) ==
  IF j >= Len(lines) THEN st
  ELSE
    LET l == At(lines, j)
        st1 == [codeLines |-> Append(st.codeLines, l), endLine |-> j + 1,
                braceCount |-> st.braceCount + count(l, "{") - count(l, "}"),
                foundStart |-> st.foundStart \/ includes(l, "{")]
    IN IF st1.foundStart /\ st1.braceCount = 0 THEN st1
       ELSE svcJsBody(lines, j + 1, st1)

RECURSIVE svcJsScan(_, _, _)

\* lines 167-178: the record is pushed and the scan goes on at i = endLine
svcJsPush(lines, i, functions, name, paramsRaw, returnType, st) ==
  svcJsScan(lines, st.endLine,
            Append(functions,
                   svcRecord(name, paramsRaw, returnType, svcJsDoc(lines, i),
                             i, st.endLine, st.codeLines)))

\* one iteration of the while loop for line i, given the result of
\* funcRegex.exec, name = match[4] || match[10] || match[17] and
\* paramsRaw = match[5] || match[12] || match[19]; threw when
\* parseFunctionParameters is handed undefined and calls .trim() on it
svcJsAt(lines, i, functions, line, match, name, paramsRaw) ==
  IF ~match.ok THEN svcJsScan(lines, i + 1, functions)
  ELSE IF ~paramsRaw.defined THEN [threw |-> TRUE, functions |-> functions]
  ELSE svcJsPush(lines, i, functions, name, paramsRaw.text,
                 match.returnType,
                 svcJsBody(lines, i,
                           [codeLines |-> <<line>>, endLine |-> i + 1,
                            braceCount |-> 0, foundStart |-> FALSE]))

\* match[4] || match[10] || match[17]
svcJsName(match) ==
  IF match.alt = 1 THEN Some(match.name) ELSE orElse(match.async, Undefined)

\* the while loop of extractJavaScriptFunctions from index i on
svcJsMatched(lines, i, functions, line, match) ==
  svcJsAt(lines, i, functions, line, match, svcJsName(match),
          orElse(Some(match.params), Undefined))

svcJsScan(lines, i, functions) ==
  IF i >= Len(lines) THEN [threw |-> FALSE, functions |-> functions]
  ELSE svcJsMatched(lines, i, functions, At(lines, i),
                    svcJsFuncRegex(At(lines, i)))

extractJavaScriptFunctions(content) ==
  svcJsScan(splitLines(content), 0, <<>>)

\* parseFile with a fallback that reports a text without any function as one
\* record over the whole text
parseFileWhole(content, language) ==
  LET r  == extractJavaScriptFunctions(content)
      fs == IF language = "python" THEN extractPythonFunctions(content)
            ELSE IF r.threw THEN <<>> ELSE r.functions
  IN IF fs = <<>>
     THEN <<svcRecord(Undefined, <<>>, Undefined, <<>>, 0,
                      Len(splitLines(content)), splitLines(content))>>
     ELSE fs

\* CodeParser.parseFile: the functions field of the ParsedFile it returns
\* (the catch block turns a thrown error into the empty list)
parseFile(content, language) ==
  IF language = "python" THEN extractPythonFunctions(content)
  ELSE LET r == extractJavaScriptFunctions(content)
       IN IF r.threw THEN <<>> ELSE r.functions

\* ------------------------------------ the scan loops, one iteration each
\* the index at which the while loop of parsePythonCode goes on after the
\* iteration for line i (i = endLine of lines 57 and 96, i++ of line 102)
pyNextIndex(lines, i) ==
  IF pyFuncPattern(At(lines, i)).ok \/ pyClassPattern(At(lines, i)).ok
  THEN pyBodyEnd(lines, i + 1, search(At(lines, i)))
  ELSE i + 1

\* the same for parseJavaScriptCode (i = endLine of lines 171, 224 and 275,
\* i++ of line 279)
jsNextIndex(lines, i) ==
  IF jsFuncPattern(At(lines, i)).ok
  THEN jsBodyEnd(lines, jsFindBrace(lines, i, i + 1), 1)
  ELSE IF arrowPattern(At(lines, i)).ok
  THEN IF includes(At(lines, i), ARROW)
          /\ ~endsWith(trim(At(lines, i)), ARROW)
       THEN i + 1
       ELSE jsBodyEnd(lines, i + 1, 1)
  ELSE IF jsClassPattern(At(lines, i)).ok
  THEN jsBodyEnd(lines, jsClassBrace(lines, i + 1),
                 classBraces(lines, jsClassBrace(lines, i + 1)))
  ELSE i + 1

\* the index after `i = endLine - 1` alone: the i++ of line 113 left out
\* behind a record
svcPyNextIndexStay(lines, i) ==
  IF svcPyFuncRegex(At(lines, i)).ok
  THEN svcPyBody(lines, svcPyFuncRegex(At(lines, i)).indent, i + 1,
                 [codeLines |-> <<At(lines, i)>>, endLine |-> i + 1,
                  doc |-> <<>>, docstring |-> <<>>,
                  foundDocstring |-> FALSE]).endLine - 1
  ELSE i + 1

\* the same for extractPythonFunctions (i = endLine - 1 of line 111, i++ of
\* line 113)
svcPyNextIndex(lines, i) ==
  IF svcPyFuncRegex(At(lines, i)).ok
  THEN (svcPyBody(lines, svcPyFuncRegex(At(lines, i)).indent, i + 1,
                  [codeLines |-> <<At(lines, i)>>, endLine |-> i + 1,
                   doc |-> <<>>, docstring |-> <<>>,
                   foundDocstring |-> FALSE]).endLine - 1) + 1
  ELSE i + 1

\* the same for extractJavaScriptFunctions (i = endLine - 1 of line 178,
\* i++ of line 180)
svcJsNextIndex(lines, i) ==
  IF svcJsFuncRegex(At(lines, i)).ok
  THEN (svcJsBody(lines, i,
                  [codeLines |-> <<At(lines, i)>>, endLine |-> i + 1,
                   braceCount |-> 0, foundStart |-> FALSE]).endLine - 1) + 1
  ELSE i + 1

\* the iteration of extractJavaScriptFunctions for line i throws (line 167
\* hands an undefined paramsRaw to parseFunctionParameters)
svcJsThrows(lines, i) ==
  /\ svcJsFuncRegex(At(lines, i)).ok
  /\ ~Truthy(Some(svcJsFuncRegex(At(lines, i)).params))

\* ------------------------------ ApiService.batchGenerateDocstrings
\* Math.min(a, b)
Min(a, b) == IF a <= b THEN a ELSE b

\* the upper limit and the default of line 457
MaxConcurrent == 10
DefaultConcurrent == 5

\* const concurrent = Math.min(10, Number(process.env.BATCH_CONCURRENT || 5))
\* for an environment value that is unset or a positive number
concurrentOf(env) ==
  Min(MaxConcurrent, IF env.defined THEN env.value ELSE DefaultConcurrent)

\* the test of line 474 with > in the place of >=
queueFullLate(q, c) == Len(q) > c

\* if (queue.length >= concurrent) of line 474
queueFull(q, c) == Len(q) >= c

\* queue.splice(0, concurrent): the elements removed and the array left
spliced(q, c) == SubSeq(q, 1, Min(c, Len(q)))
remaining(q, c) == SubSeq(q, Min(c, Len(q)) + 1, Len(q))

\* the ways a generateDocstring call for a code text settles: it resolves
\* with a docstring for that text, resolves without success, or rejects
Outcomes(c) ==
  { [kind |-> "resolved", success |-> TRUE, docstring |-> Some(<<"doc">> \o c),
     error |-> Undefined],
    [kind |-> "resolved", success |-> FALSE, docstring |-> Undefined,
     error |-> Some(<<"rate limit exceeded">>)],
    [kind |-> "rejected", success |-> FALSE, docstring |-> Undefined,
     error |-> Some(<<"fetch failed">>)] }

\* the object a task pushes to results (lines 466 and 469)
entryOf(o) ==
  [success |-> o.success, docstring |-> o.docstring, error |-> o.error]

\* ------------------------------------------------------------ the inputs
\* the number of fragments an input text is made of
MaxParts == 3

I4 == <<SP, SP, SP, SP>>
I2 == <<SP, SP>>

\* Python source fragments
PyDefAdd  == <<"def", SP, "add", "(", "a", ",", SP, "b", ")", ":">>
PyDefG    == <<"def", SP, "g", "(", ")", ":">>
PyClassC  == <<"class", SP, "C", ":">>
PyReturn  == I4 \o <<"return", SP, "a", SP, "+", SP, "b">>
PyDoc1    == I4 \o <<Q3, "x", Q3>>
PyDocA    == I4 \o <<A3, "x", A3>>
PyDoc3    == I4 \o <<Q3, NL>> \o I4 \o <<"x", NL>> \o I4 \o <<Q3>>
PyBlank   == <<>>
PyStmt    == <<"x">>
PyNested  == I4 \o <<"def", SP, "g", "(", ")", ":">>
PyDefRet  == <<"def", SP, "add", "(", "a", ",", SP, "b", ")", SP, "->", SP,
               "int", ":">>
PyDocOpen == I4 \o <<Q3, "x">>

PyFragments == {PyDefAdd, PyDefG, PyClassC, PyReturn, PyDoc1, PyDocA, PyDoc3,
                PyBlank, PyStmt, PyNested, PyDefRet, PyDocOpen}

\* JavaScript source fragments
JsFuncAdd == <<"function", SP, "add", "(", "a", ",", SP, "b", ")", SP, "{",
               NL>>
             \o I2 \o <<"return", SP, "a", SP, "+", SP, "b", ";", NL, "}">>
JsOneLine == <<"function", SP, "g", "(", ")", SP, "{", SP, "return", SP,
               "{", "a", ":", "1", "}", ";", SP, "}">>
JsDoc1    == <<JO, SP, "x", SP, JC>>
JsDoc2    == <<JO, NL, SP, "*", SP, "x", SP, JC>>
JsDoc3    == <<JO, NL, SP, "*", SP, "x", NL, SP, JC>>
JsArrow   == <<"const", SP, "g", SP, "=", SP, "(", "a", ")", SP, ARROW, SP,
               "{", NL>> \o I2 \o <<"return", SP, "a", ";", NL, "}">>
JsComment == <<CO, SP, "c", SP, JC>>
JsClose   == <<"}">>
JsStmt    == <<"x", ";">>
JsHeadAdd == <<"function", SP, "add", "(", "a", ",", SP, "b", ")", SP, "{">>
JsArrowAdd == <<"const", SP, "add", SP, "=", SP, "(", "a", ")", SP, ARROW, SP,
                "a", ";">>
JsMethod  == <<"g", "(", ")", SP, "{">>
JsArrowHead == <<"const", SP, "g", SP, "=", SP, "(", "a", ")", SP, ARROW, SP,
                 "{">>
JsClassC  == <<"class", SP, "C", SP, "{">>

JsFragments == {JsFuncAdd, JsOneLine, JsDoc1, JsDoc2, JsDoc3, JsComment,
                JsArrow, JsClose, JsStmt, JsHeadAdd, JsArrowAdd, JsMethod,
                JsArrowHead, JsClassC}

Fragments(lang) == IF lang = "python" THEN PyFragments ELSE JsFragments

\* the source texts: up to MaxParts fragments joined by newlines (no
\* fragment at all is the empty string)
Sources(lang) ==
  {join(parts, <<NL>>) :
     parts \in UNION {[1..n -> Fragments(lang)] : n \in 0..MaxParts}}

\* the name -> documentation arrays handed to insertDocstrings
DocX  == <<"x">>
DocYZ == <<"y", NL, "z">>
DocChoices ==
  { <<>>,
    <<[name |-> <<"add">>, docstring |-> DocX]>>,
    <<[name |-> <<"g">>, docstring |-> DocYZ]>>,
    <<[name |-> <<"add">>, docstring |-> DocX],
      [name |-> <<"g">>, docstring |-> DocYZ]>>,
    <<[name |-> <<"h">>, docstring |-> DocX]>> }

\* -------------------------------------------------------------- the state
VARIABLES
  code,        \* the uploaded source text
  language,    \* "python" or "javascript"
  pc,          \* where the caller is
  functions,   \* the records of the last utils extraction
  file,        \* the functions of the ParsedFile of CodeParser.parseFile
  docstrings,  \* the docstrings argument of insertDocstrings
  source,      \* the code argument of the running insertDocstrings call
  lines,       \* its working array
  i,           \* its loop index
  result,      \* the value it returned
  first,       \* the value the first of two calls returned
  pass,        \* 1 in the first call of insertDocstrings, 2 in the second
  scanner,     \* the extraction function whose scan loop is running
  batchFunctions, \* the functions argument of batchGenerateDocstrings
  concurrent,  \* its constant concurrent
  queue,       \* its array queue: the numbers of the tasks whose promises
               \* it holds
  awaited,     \* the tasks of the array an await Promise.allSettled waits for
  tasks,       \* for each started task its state and the outcome of its
               \* generateDocstring call
  results,     \* its array results
  fn           \* the number of elements the for loop has taken

\* the state of batchGenerateDocstrings
batchVars == <<batchFunctions, concurrent, queue, awaited, tasks, results, fn>>

vars == <<code, language, pc, functions, file, docstrings, source, lines, i,
          result, first, pass, scanner, batchVars>>

\* no scan loop and no batch is running
Idle ==
  /\ scanner = ""
  /\ batchFunctions = <<>>
  /\ concurrent = 0
  /\ queue = <<>>
  /\ awaited = <<>>
  /\ tasks = <<>>
  /\ results = <<>>
  /\ fn = 0

Init ==
  /\ language \in {"python", "javascript"}
  /\ code \in Sources(language)
  /\ pc = "start"
  /\ functions = <<>>
  /\ file = <<>>
  /\ docstrings = <<>>
  /\ source = <<>>
  /\ lines = <<>>
  /\ i = 0
  /\ result = <<>>
  /\ first = <<>>
  /\ pass = 0
  /\ Idle

\* Home.tsx handleFileUpload: the uploaded text is parsed
Extract ==
  /\ pc = "start"
  /\ functions' = parse(code, language)
  /\ pc' = "extracted"
  /\ UNCHANGED <<code, language, file, docstrings, source, lines, i, result,
                 first, pass>>
  /\ UNCHANGED <<scanner, batchVars>>

\* CodeParser.parseFile(code, language)
ParseFile ==
  /\ pc = "start"
  /\ file' = parseFile(code, language)
  /\ pc' = "filed"
  /\ UNCHANGED <<code, language, functions, docstrings, source, lines, i,
                 result, first, pass>>
  /\ UNCHANGED <<scanner, batchVars>>

\* insertDocstrings, lines 290-298: the call up to the head of the loop
InsertBegin(d) ==
  /\ pc = "start"
  /\ docstrings' = d
  /\ source' = code
  /\ functions' = parse(code, language)
  /\ lines' = split(code, NL)
  /\ i' = Len(functions') - 1
  /\ pass' = 1
  /\ pc' = "loop"
  /\ UNCHANGED <<code, language, file, result, first>>
  /\ UNCHANGED <<scanner, batchVars>>

\* one iteration of the for loop (lines 298-354)
InsertStep ==
  /\ pc = "loop"
  /\ i >= 0
  /\ LET r == insertOne(lines, At(functions, i), language, docstrings)
     IN /\ lines' = r.lines
        /\ pc' = IF r.threw THEN "threw" ELSE "loop"
  /\ i' = i - 1
  /\ UNCHANGED <<code, language, functions, file, docstrings, source, result,
                 first, pass>>
  /\ UNCHANGED <<scanner, batchVars>>

\* return lines.join('\n') (line 356)
InsertReturn ==
  /\ pc = "loop"
  /\ i < 0
  /\ result' = join(lines, <<NL>>)
  /\ pc' = "returned"
  /\ UNCHANGED <<code, language, functions, file, docstrings, source, lines,
                 i, first, pass>>
  /\ UNCHANGED <<scanner, batchVars>>

\* insertDocstrings called again on its own output with the same docstrings
InsertAgain ==
  /\ pc = "returned"
  /\ pass = 1
  /\ first' = result
  /\ source' = result
  /\ functions' = parse(result, language)
  /\ lines' = split(result, NL)
  /\ i' = Len(functions') - 1
  /\ pass' = 2
  /\ pc' = "loop"
  /\ UNCHANGED <<code, language, file, docstrings, result>>
  /\ UNCHANGED <<scanner, batchVars>>

\* the output of insertDocstrings is parsed again
ReExtract ==
  /\ pc = "returned"
  /\ pass = 1
  /\ functions' = parse(result, language)
  /\ pc' = "reextracted"
  /\ UNCHANGED <<code, language, file, docstrings, source, lines, i, result,
                 first, pass>>
  /\ UNCHANGED <<scanner, batchVars>>

Next ==
  \/ Extract
  \/ ParseFile
  \/ \E d \in DocChoices : InsertBegin(d)
  \/ InsertStep
  \/ InsertReturn
  \/ InsertAgain
  \/ ReExtract

Spec == Init /\ [][Next]_vars

\* ------------------------------------- parseFunctionParameters on its own
\* the number of comma-delimited segments of a raw parameter list
MaxSegs == 4

\* the segments of a raw parameter list
SegA     == <<"a">>
SegB     == <<"b", ":", SP, "int">>
SegC     == <<"c", "=", "5">>
SegD     == <<"d", ":", SP, "str", SP, "=", SP, "'x'">>
SegE     == <<"e", SP, ":", "int", "=", "5", SP>>
SegStar  == <<"*", "args">>
SegEmpty == <<>>

Segments == {SegA, SegB, SegC, SegD, SegE, SegStar, SegEmpty}

\* the raw parameter lists: up to MaxSegs segments joined by ", "
ParamStrings ==
  {join(segs, <<",", SP>>) :
     segs \in UNION {[1..n -> Segments] : n \in 0..MaxSegs}}

\* code holds the paramsRaw argument, file the returned parameters
ParamInit ==
  /\ language \in {"python", "javascript"}
  /\ code \in ParamStrings
  /\ pc = "start"
  /\ functions = <<>>
  /\ file = <<>>
  /\ docstrings = <<>>
  /\ source = <<>>
  /\ lines = <<>>
  /\ i = 0
  /\ result = <<>>
  /\ first = <<>>
  /\ pass = 0
  /\ Idle

\* CodeParser.parseFunctionParameters(paramsRaw, language)
ParseParameters ==
  /\ pc = "start"
  /\ file' = parseFunctionParameters(code)
  /\ pc' = "parsed"
  /\ UNCHANGED <<code, language, functions, docstrings, source, lines, i,
                 result, first, pass>>
  /\ UNCHANGED <<scanner, batchVars>>

ParamNext == ParseParameters

ParamSpec == ParamInit /\ [][ParamNext]_vars

\* ------------------------------------------- the scan loops, step by step
\* the four extraction functions
Scanners == {"parsePythonCode", "parseJavaScriptCode",
             "extractPythonFunctions", "extractJavaScriptFunctions"}

\* the language of the texts an extraction function is called for
ScanLanguage(s) ==
  IF s \in {"parsePythonCode", "extractPythonFunctions"} THEN "python"
  ELSE "javascript"

\* const lines = code.split('\n') and content.split(/\r?\n/)
ScanLines(s, text) ==
  IF s \in {"parsePythonCode", "parseJavaScriptCode"} THEN split(text, NL)
  ELSE splitLines(text)

\* the header pattern of the scan matches line k
ScanMatches(s, ls, k) ==
  IF s = "parsePythonCode"
  THEN pyFuncPattern(At(ls, k)).ok \/ pyClassPattern(At(ls, k)).ok
  ELSE IF s = "parseJavaScriptCode"
  THEN jsFuncPattern(At(ls, k)).ok \/ arrowPattern(At(ls, k)).ok
       \/ jsClassPattern(At(ls, k)).ok
  ELSE IF s = "extractPythonFunctions" THEN svcPyFuncRegex(At(ls, k)).ok
  ELSE svcJsFuncRegex(At(ls, k)).ok

\* the record the iteration for a matching line k pushes
ScanRecord(s, ls, k) ==
  IF s = "parsePythonCode" THEN pyScan(ls, k, <<>>)[1]
  ELSE IF s = "parseJavaScriptCode" THEN jsScan(ls, k, <<>>)[1]
  ELSE IF s = "extractPythonFunctions" THEN svcPyScan(ls, k, <<>>)[1]
  ELSE svcJsScan(ls, k, <<>>).functions[1]

\* the value of i at the head of the next iteration
NextIndex(s, ls, k) ==
  IF s = "parsePythonCode" THEN pyNextIndex(ls, k)
  ELSE IF s = "parseJavaScriptCode" THEN jsNextIndex(ls, k)
  ELSE IF s = "extractPythonFunctions" THEN svcPyNextIndex(ls, k)
  ELSE svcJsNextIndex(ls, k)

\* a scan loop is entered: lines is the split text, i = 0
ScanInit ==
  /\ scanner \in Scanners
  /\ language = ScanLanguage(scanner)
  /\ code \in Sources(language)
  /\ lines = ScanLines(scanner, code)
  /\ i = 0
  /\ pc = "scan"
  /\ functions = <<>>
  /\ file = <<>>
  /\ docstrings = <<>>
  /\ source = <<>>
  /\ result = <<>>
  /\ first = <<>>
  /\ pass = 0
  /\ batchFunctions = <<>>
  /\ concurrent = 0
  /\ queue = <<>>
  /\ awaited = <<>>
  /\ tasks = <<>>
  /\ results = <<>>
  /\ fn = 0

\* one iteration of the while loop
ScanStep ==
  /\ pc = "scan"
  /\ i < Len(lines)
  /\ ~(scanner = "extractJavaScriptFunctions" /\ svcJsThrows(lines, i))
  /\ i' = NextIndex(scanner, lines, i)
  /\ functions' = IF ScanMatches(scanner, lines, i)
                  THEN Append(functions, ScanRecord(scanner, lines, i))
                  ELSE functions
  /\ UNCHANGED <<code, language, pc, file, docstrings, source, lines, result,
                 first, pass, scanner, batchVars>>

\* the iteration of extractJavaScriptFunctions that throws
ScanThrow ==
  /\ pc = "scan"
  /\ i < Len(lines)
  /\ scanner = "extractJavaScriptFunctions"
  /\ svcJsThrows(lines, i)
  /\ pc' = "threw"
  /\ UNCHANGED <<code, language, functions, file, docstrings, source, lines,
                 i, result, first, pass, scanner, batchVars>>

\* the loop condition i < lines.length fails: return functions
ScanReturn ==
  /\ pc = "scan"
  /\ i >= Len(lines)
  /\ pc' = "scanned"
  /\ UNCHANGED <<code, language, functions, file, docstrings, source, lines,
                 i, result, first, pass, scanner, batchVars>>

ScanNext == ScanStep \/ ScanThrow \/ ScanReturn

ScanSpec == ScanInit /\ [][ScanNext]_vars

\* ------------------------------------------- batchGenerateDocstrings
\* the number of functions handed to batchGenerateDocstrings
MaxFns == 4

\* the functions arguments: k functions with different code texts
FunctionLists ==
  {[k \in 1..n |-> [code |-> repeat("x", k)]] : n \in 0..MaxFns}

\* the values of the environment variable BATCH_CONCURRENT: unset or a
\* positive number
BatchConcurrentValues ==
  {[defined |-> FALSE, value |-> 0]}
    \cup {[defined |-> TRUE, value |-> v] : v \in {1, 2, 3, 12}}

\* the task of a queue entry has settled
Settled(k) == tasks[k].state = "settled"

BatchInit ==
  /\ pc = "start"
  /\ language = "python"
  /\ code = <<>>
  /\ functions = <<>>
  /\ file = <<>>
  /\ docstrings = <<>>
  /\ source = <<>>
  /\ lines = <<>>
  /\ i = 0
  /\ result = <<>>
  /\ first = <<>>
  /\ pass = 0
  /\ Idle

\* the call and lines 456-461
BatchBegin(fs, env) ==
  /\ pc = "start"
  /\ batchFunctions' = fs
  /\ concurrent' = concurrentOf(env)
  /\ results' = <<>>
  /\ queue' = <<>>
  /\ awaited' = <<>>
  /\ tasks' = <<>>
  /\ fn' = 0
  /\ pc' = "for"
  /\ UNCHANGED <<code, language, functions, file, docstrings, source, lines,
                 i, result, first, pass, scanner>>

\* one pass of the for loop up to its first await (lines 462-474): the task
\* is started, runs up to its await of generateDocstring, and its promise
\* is pushed to queue
StartTask ==
  /\ pc = "for"
  /\ fn < Len(batchFunctions)
  /\ fn' = fn + 1
  /\ tasks' = Append(tasks, [state |-> "running",
                             outcome |-> [kind |-> "pending"]])
  /\ queue' = Append(queue, fn + 1)
  /\ pc' = IF queueFull(queue', concurrent) THEN "race" ELSE "for"
  /\ UNCHANGED <<code, language, functions, file, docstrings, source, lines,
                 i, result, first, pass, scanner, batchFunctions, concurrent,
                 awaited, results>>

\* the generateDocstring call of a running task settles while the batch is
\* suspended at an await, and the task pushes its entry (lines 465-470)
TaskSettles(k, o) ==
  /\ pc \in {"race", "delay", "allSettled", "final"}
  /\ k \in 1..Len(tasks)
  /\ tasks[k].state = "running"
  /\ tasks' = [tasks EXCEPT ![k] = [state |-> "settled", outcome |-> o]]
  /\ results' = Append(results, entryOf(o))
  /\ UNCHANGED <<code, language, pc, functions, file, docstrings, source,
                 lines, i, result, first, pass, scanner, batchFunctions,
                 concurrent, queue, awaited, fn>>

\* await Promise.race(queue) of line 475 resumes
RaceResumes ==
  /\ pc = "race"
  /\ \E n \in 1..Len(queue) : Settled(queue[n])
  /\ pc' = "delay"
  /\ UNCHANGED <<code, language, functions, file, docstrings, source, lines,
                 i, result, first, pass, scanner, batchVars>>

\* the delay of line 477 is over; queue.splice(0, concurrent) of line 479
DelayResumes ==
  /\ pc = "delay"
  /\ awaited' = spliced(queue, concurrent)
  /\ queue' = remaining(queue, concurrent)
  /\ pc' = "allSettled"
  /\ UNCHANGED <<code, language, functions, file, docstrings, source, lines,
                 i, result, first, pass, scanner, batchFunctions, concurrent,
                 tasks, results, fn>>

\* await Promise.allSettled(...) of line 479 resumes: next pass of the loop
AllSettledResumes ==
  /\ pc = "allSettled"
  /\ \A n \in 1..Len(awaited) : Settled(awaited[n])
  /\ awaited' = <<>>
  /\ pc' = "for"
  /\ UNCHANGED <<code, language, functions, file, docstrings, source, lines,
                 i, result, first, pass, scanner, batchFunctions, concurrent,
                 queue, tasks, results, fn>>

\* the for loop is left: await Promise.allSettled(queue) of line 482
LoopEnds ==
  /\ pc = "for"
  /\ fn = Len(batchFunctions)
  /\ awaited' = queue
  /\ pc' = "final"
  /\ UNCHANGED <<code, language, functions, file, docstrings, source, lines,
                 i, result, first, pass, scanner, batchFunctions, concurrent,
                 queue, tasks, results, fn>>

\* return results (line 483)
BatchReturns ==
  /\ pc = "final"
  /\ \A n \in 1..Len(awaited) : Settled(awaited[n])
  /\ pc' = "returned"
  /\ UNCHANGED <<code, language, functions, file, docstrings, source, lines,
                 i, result, first, pass, scanner, batchVars>>

BatchNext ==
  \/ \E fs \in FunctionLists, env \in BatchConcurrentValues :
       BatchBegin(fs, env)
  \/ StartTask
  \/ \E k \in 1..MaxFns :
       \E o \in Outcomes(IF k <= Len(batchFunctions)
                         THEN batchFunctions[k].code ELSE <<>>) :
         TaskSettles(k, o)
  \/ RaceResumes
  \/ DelayResumes
  \/ AllSettledResumes
  \/ LoopEnds
  \/ BatchReturns

BatchSpec == BatchInit /\ [][BatchNext]_vars

\* ------------------------------------------------------------ the claims
\* the lines of the uploaded text
CodeLines == split(code, NL)

\* the set of elements of a sequence
Range(seq) == {seq[k] : k \in 1..Len(seq)}

\* the startLine fields of a record list, in order
StartLines(fs) == [k \in 1..Len(fs) |-> fs[k].startLine]

\* a def or class header line of parsePythonCode
IsPyHeader(line) == pyFuncPattern(line).ok \/ pyClassPattern(line).ok

\* the name the header patterns of parsePythonCode capture on a line
PyHeaderName(line) ==
  IF pyFuncPattern(line).ok THEN pyFuncPattern(line).name
  ELSE pyClassPattern(line).name

\* the indexes, ascending, of the header lines at indentation 0 from k on
RECURSIVE TopHeaders(_, _)
TopHeaders(ls, k) ==
  IF k >= Len(ls) THEN <<>>
  ELSE (IF IsPyHeader(At(ls, k)) /\ search(At(ls, k)) = 0 THEN <<k>>
        ELSE <<>>) \o TopHeaders(ls, k + 1)

\* the records of fs whose header line is at indentation 0
RECURSIVE TopRecords(_, _)
TopRecords(ls, fs) ==
  IF fs = <<>> THEN <<>>
  ELSE (IF search(At(ls, fs[1].startLine)) = 0 THEN <<fs[1]>> ELSE <<>>)
       \o TopRecords(ls, Tail(fs))

PyExample == join(<<PyDefAdd, PyReturn>>, <<NL>>)

\* a header line of parseJavaScriptCode
IsJsHeader(line) ==
  jsFuncPattern(line).ok \/ arrowPattern(line).ok \/ jsClassPattern(line).ok

\* a header line of CodeParser.parseFile
IsSvcHeader(line) ==
  IF language = "python" THEN svcPyFuncRegex(line).ok
  ELSE svcJsFuncRegex(line).ok

IsUtilHeader(line) ==
  IF language = "python" THEN IsPyHeader(line) ELSE IsJsHeader(line)

C3_OriginalCode ==
  pc = "filed"
    => \A r \in Range(file) :
         split(r.originalCode, NL)
           = SubSeq(splitLines(code), r.startLine, r.endLine)

\* the docstrings argument has an entry of the record's name
Named(r) == \E k \in 1..Len(docstrings) : docstrings[k].name = r.name

\* the lines of a text, each without its leading and trailing whitespace
TrimLines(s) == [k \in 1..Len(split(s, NL)) |-> trim(split(s, NL)[k])]

\* the record whose turn it is in the loop of insertDocstrings
Func == At(functions, i)

\* C4: for a function with no existing documentation and a mapping with one
\* entry of its name, extracting again from the text insertDocstrings
\* returned gives a record of that name whose docstring is the inserted
\* text, up to leading and trailing whitespace on lines.
C4_RoundTrip ==
  (pc = "reextracted" /\ Len(docstrings) = 1) =>
    \A r \in Range(parse(code, language)) :
      (r.name = docstrings[1].name /\ ~Truthy(r.docstring)) =>
        \E q \in Range(functions) :
          /\ q.name = r.name
          /\ q.docstring.defined
          /\ TrimLines(q.docstring.text) = TrimLines(docstrings[1].docstring)

\* C5: a second call of insertDocstrings with the same mapping on the output
\* of the first call returns that same output (and does not throw).
C5_Idempotent ==
  pass = 2 => /\ pc # "threw"
              /\ pc = "returned" => result = first

\* C6: whenever a record's turn comes in the loop of insertDocstrings, the
\* working array still holds the record's header line at index startLine.
C6_HeaderInPlace ==
  (pc = "loop" /\ i >= 0) =>
    /\ Func.startLine < Len(lines)
    /\ At(lines, Func.startLine) = At(split(source, NL), Func.startLine)

\* C7: when no extracted record's name has an entry in the mapping,
\* insertDocstrings changes nothing on the way, returns its code argument
\* unchanged and does not throw.
C7_NoEntryNoChange ==
  (pc \in {"loop", "threw", "returned"}
   /\ \A r \in Range(functions) : ~Named(r))
    => /\ pc # "threw"
       /\ pc = "loop" => lines = split(source, NL)
       /\ pc = "returned" => result = source

\* insertDocstrings has returned for a text with two records and a mapping
\* that only names an unknown function
C7_Witness ==
  /\ pc = "returned" /\ pass = 1
  /\ docstrings = <<[name |-> <<"h">>, docstring |-> DocX]>>
  /\ Len(functions) = 2
  /\ result = code

\* the index of the last line of the docstring that opens on the line behind
\* the header at index s: that line when it holds the delimiter twice, else
\* the next line that holds the delimiter
PyDocLast(ls, s) ==
  IF count(At(ls, s + 1), Q3) >= 2 THEN s + 1
  ELSE CHOOSE b \in (s + 2)..(Len(ls) - 1) :
         /\ includes(At(ls, b), Q3)
         /\ \A c \in (s + 2)..(b - 1) : ~includes(At(ls, c), Q3)

\* the array with the docstring lines of record f replaced by the new block
PyReplaced(ls, f, d) ==
  splice(ls, f.startLine + 1, PyDocLast(ls, f.startLine) - f.startLine,
         <<pyFormat(repeat(SP, search(At(ls, f.startLine)) + 4), d)>>)

\* C8: for a Python record with a detected docstring directly behind its
\* header and an entry of its name, the step of insertDocstrings removes the
\* lines of that docstring (one line or several) and puts the new
\* triple-quoted block in their place, so one docstring is left.
C8_ReplacesDocstring ==
  [][(/\ pc = "loop" /\ i >= 0 /\ language = "python"
      /\ Named(Func) /\ Truthy(Func.docstring)
      /\ Func.startLine + 1 <= Func.endLine
      /\ startsWith(trim(At(lines, Func.startLine + 1)), Q3))
     => /\ pc' = "loop"
        /\ join(lines', <<NL>>)
             = join(PyReplaced(lines, Func,
                               mapGet(docstrings, Func.name).text),
                    <<NL>>)]_vars

\* the index of the line that opens the comment block closed on the line
\* before the header at index s, or -1
JsBlock(ls, s) ==
  IF s >= 1 /\ endsWith(trim(At(ls, s - 1)), JC) THEN jsDocStart(ls, s - 1)
  ELSE -1

\* lines k..s-1 are one comment block
IsBlock(ls, k, s) ==
  /\ k >= 0
  /\ startsWith(trim(At(ls, k)), JO)
  /\ \A c \in k..(s - 2) : ~includes(At(ls, c), JC)

\* C9: for a JavaScript record whose header is directly preceded by a
\* comment block and whose name has an entry, insertDocstrings returns a
\* text in which the new block stands directly before the header, in the
\* place of the old block (behind the line that preceded the old block).
C9_ReplacesBlock ==
  (pc \in {"returned", "threw"} /\ pass = 1 /\ language = "javascript") =>
    \A r \in Range(functions) :
      LET s == r.startLine
          k == JsBlock(CodeLines, s)
          B == TrimLines(jsFormat(<<>>, mapGet(docstrings, r.name).text))
          R == split(result, NL)
      IN (Named(r) /\ IsBlock(CodeLines, k, s)) =>
           \E p \in 1..Len(R) :
             /\ pc = "returned"
             /\ p + Len(B) <= Len(R)
             /\ \A n \in 1..Len(B) : trim(R[p + n - 1]) = B[n]
             /\ R[p + Len(B)] = At(CodeLines, s)
             /\ IF k = 0 THEN p = 1
                ELSE p > 1 /\ R[p - 1] = At(CodeLines, k - 1)

\* the braces of a line balance and there is at least one pair
Balanced(line) ==
  count(line, "{") >= 1 /\ count(line, "{") = count(line, "}")

\* C10: a function declaration of parseJavaScriptCode whose braces all
\* balance on the header line gets endLine equal to its header line, and a
\* definition on the next line gets a record of its own.
C10_OneLineFunction ==
  (pc = "extracted" /\ language = "javascript") =>
    \A r \in Range(functions) :
      (jsFuncPattern(At(CodeLines, r.startLine)).ok
       /\ Balanced(At(CodeLines, r.startLine)))
        => /\ r.endLine = r.startLine
           /\ (r.startLine + 1 < Len(CodeLines)
               /\ IsJsHeader(At(CodeLines, r.startLine + 1)))
                => \E q \in Range(functions) : q.startLine = r.startLine + 1

\* record r of a line array holds line k inside its body extent
InBody(r, k) == r.startLine < k /\ k <= r.endLine

C12_MethodsDetected ==
  (pc = "extracted" /\ language = "python") =>
    \A r \in Range(functions) :
      r.type = "class" =>
        \A k \in 0..(Len(CodeLines) - 1) :
          (InBody(r, k) /\ pyFuncPattern(At(CodeLines, k)).ok)
            => \E q \in Range(functions) :
                 q.startLine = k /\ q.name = PyHeaderName(At(CodeLines, k))

\* C13: in every record of parsePythonCode, parseJavaScriptCode and
\* CodeParser.parseFile startLine <= endLine, and endLine is not past the
\* last line of the input (the last index for the 0-based records, the
\* number of lines for the 1-based records of parseFile).
C13_LineRange ==
  /\ pc = "extracted"
       => \A r \in Range(functions) :
            r.startLine <= r.endLine /\ r.endLine <= Len(CodeLines) - 1
  /\ pc = "filed"
       => \A r \in Range(file) :
            r.startLine <= r.endLine /\ r.endLine <= Len(splitLines(code))

\* a function whose brace is never closed ends on the last line of the text
C13_Witness ==
  /\ pc = "extracted" /\ language = "javascript"
  /\ code = join(<<JsStmt, JsHeadAdd, JsStmt>>, <<NL>>)
  /\ Len(functions) = 1
  /\ functions[1].startLine = 1
  /\ functions[1].endLine = 2

\* each record of the list starts behind the end of the record before it
Ordered(fs) == \A k \in 1..(Len(fs) - 1) : fs[k + 1].startLine > fs[k].endLine

\* C14: the record list of each extractor is in source order and its line
\* ranges do not overlap: a record starts strictly behind the endLine of its
\* predecessor.
C14_OrderedDisjoint ==
  /\ pc = "extracted" => Ordered(functions)
  /\ pc = "filed" => Ordered(file)

\* CodeParser.parseFile has returned two records for two Python defs
C14_Witness ==
  /\ pc = "filed" /\ language = "python"
  /\ code = join(<<PyDefAdd, PyReturn, PyDefG>>, <<NL>>)
  /\ Len(file) = 2
  /\ file[1].endLine = 2 /\ file[2].startLine = 3

\* the segment is not empty after trim
IsNonBlank(seg) == trim(seg) # <<>>

\* the trimmed non-empty comma-delimited segments of a raw parameter list
RawSegments(raw) ==
  LET segs == SelectSeq(split(raw, ","), IsNonBlank)
  IN [k \in 1..Len(segs) |-> trim(segs[k])]

\* the text of a segment after its first ":" up to its first "=", when the
\* ":" comes first
SegType(seg) ==
  LET c == indexOf(seg, ":")
      e == indexOf(seg, "=")
  IN IF c > 0 /\ (e = 0 \/ c < e)
     THEN Some(trim(SubSeq(seg, c + 1, IF e > 0 THEN e - 1 ELSE Len(seg))))
     ELSE Undefined

\* the text of a segment after its first "="
SegDefault(seg) ==
  LET e == indexOf(seg, "=")
  IN IF e > 0 THEN Some(trim(SubSeq(seg, e + 1, Len(seg)))) ELSE Undefined

\* the example of the specification
ParamExample == join(<<SegA, SegB, SegC, SegD>>, <<",", SP>>)

OneLineDoc(line) ==
  LET t == trim(line)
  IN /\ Len(t) >= 2
     /\ t[1] \in {Q3, A3}
     /\ t[Len(t)] = t[1]
     /\ \A k \in 2..(Len(t) - 1) : t[k] \notin {Q3, A3}

\* the text between the delimiters of such a line, trimmed
OneLineDocText(line) == trim(SubSeq(trim(line), 2, Len(trim(line)) - 1))

\* C16: for a Python function whose first body line is a one-line
\* triple-quoted string, with either delimiter, parsePythonCode and
\* CodeParser.extractPythonFunctions report the trimmed text between the
\* delimiters as the docstring.
C16_OneLineDocstring ==
  /\ (pc = "extracted" /\ language = "python") =>
       \A r \in Range(functions) :
         (r.type = "function" /\ r.startLine < r.endLine
          /\ OneLineDoc(At(CodeLines, r.startLine + 1)))
           => r.docstring
                = Some(OneLineDocText(At(CodeLines, r.startLine + 1)))
  /\ (pc = "filed" /\ language = "python") =>
       \A r \in Range(file) :
         (r.startLine < r.endLine
          /\ OneLineDoc(splitLines(code)[r.startLine + 1]))
           => r.docstring
                = OneLineDocText(splitLines(code)[r.startLine + 1])

\* C17: for the empty input string parsePythonCode, parseJavaScriptCode and
\* CodeParser.parseFile (both languages) return an empty record list.
C17_EmptyInput ==
  code = <<>> => /\ pc = "extracted" => functions = <<>>
                 /\ pc = "filed" => file = <<>>
                 /\ pc = "loop" => functions = <<>>

\* CodeParser.parseFile has returned for the empty JavaScript text
C17_Witness ==
  /\ code = <<>> /\ language = "javascript"
  /\ pc = "filed"
  /\ file = <<>>

\* C18: no operation of the parsing core throws: insertDocstrings never
\* leaves its loop by an error (the parsers and parseFile return a value on
\* every path of the model).
C18_NeverThrows == pc # "threw"

\* each line of a documentation text with a prefix put before it
RECURSIVE Prefixed(_, _)
Prefixed(prefix, ls) ==
  IF ls = <<>> THEN <<>>
  ELSE <<prefix \o ls[1]>> \o Prefixed(prefix, Tail(ls))

\* the lines of the new Python block for an indentation of n spaces
PyBlock(n, d) ==
  <<repeat(SP, n) \o <<Q3>>>> \o Prefixed(repeat(SP, n), split(d, NL))
  \o <<repeat(SP, n) \o <<Q3>>>>

\* the lines of the new JavaScript block for an indentation of n spaces
JsNewBlock(n, d) ==
  <<repeat(SP, n) \o <<JO>>>>
  \o Prefixed(repeat(SP, n) \o <<SP, "*", SP>>, split(d, NL))
  \o <<repeat(SP, n) \o <<SP, JC>>>>

\* the header line of the record on turn in the text insertDocstrings got
Header == At(split(source, NL), Func.startLine)

\* C19: for a record without existing documentation whose name has an
\* entry, the step of insertDocstrings puts the new block directly behind
\* the header line (Python, header indentation + 4) or directly before it
\* (JavaScript, header indentation + 2, inner lines with " * "), and removes
\* no line.
C19_InsertPosition ==
  [][(pc = "loop" /\ i >= 0 /\ Named(Func) /\ ~Truthy(Func.docstring))
     => LET s == Func.startLine
            d == mapGet(docstrings, Func.name).text
        IN /\ pc' = "loop"
           /\ language = "python" =>
                join(lines', <<NL>>)
                  = join(SubSeq(lines, 1, s + 1)
                         \o PyBlock(search(Header) + 4, d)
                         \o SubSeq(lines, s + 2, Len(lines)), <<NL>>)
           /\ language = "javascript" =>
                join(lines', <<NL>>)
                  = join(SubSeq(lines, 1, s)
                         \o JsNewBlock(search(Header) + 2, d)
                         \o <<Header>>
                         \o SubSeq(lines, s + 2, Len(lines)), <<NL>>)]_vars

\* the indexes (0-based) of the existing documentation block of record f in
\* the array ls: for Python from the first body line that starts with the
\* delimiter to the line that closes it (the same line when it holds the
\* delimiter twice, the end of the array when it is never closed), for
\* JavaScript the nearest comment block that opens with the JSDoc marker
\* and ends within the ten lines before the header
DocBlock(ls, f, lang) ==
  IF lang = "python" THEN
    LET open == {k \in (f.startLine + 1)..f.endLine :
                   k < Len(ls) /\ startsWith(trim(At(ls, k)), Q3)}
    IN IF ~Truthy(f.docstring) \/ open = {} THEN {}
       ELSE LET a == CHOOSE k \in open : \A m \in open : k <= m
                close == {k \in (a + 1)..(Len(ls) - 1) :
                            includes(At(ls, k), Q3)}
            IN IF count(At(ls, a), Q3) >= 2 THEN {a}
               ELSE IF close = {} THEN a..(Len(ls) - 1)
               ELSE a..(CHOOSE k \in close : \A m \in close : k <= m)
  ELSE LET close == {k \in Max(0, f.startLine - LookBack)..(f.startLine - 1) :
                       k < Len(ls) /\ includes(At(ls, k), JC)}
       IN IF close = {} THEN {}
          ELSE LET j == CHOOSE k \in close : \A m \in close : m <= k
                   open == {k \in 0..j : includes(At(ls, k), JO)}
               IN IF open = {} THEN {}
                  ELSE (CHOOSE k \in open : \A m \in open : m <= k)..j

\* the elements of ls at the indexes outside the set drop, in order
RECURSIVE Keep(_, _, _)
Keep(ls, k, drop) ==
  IF k >= Len(ls) THEN <<>>
  ELSE (IF k \in drop THEN <<>> ELSE <<At(ls, k)>>) \o Keep(ls, k + 1, drop)

\* xs is a subsequence of ys
RECURSIVE IsSubseq(_, _)
IsSubseq(xs, ys) ==
  IF xs = <<>> THEN TRUE
  ELSE IF ys = <<>> THEN FALSE
  ELSE IF xs[1] = ys[1] THEN IsSubseq(Tail(xs), Tail(ys))
  ELSE IsSubseq(xs, Tail(ys))

\* C20: a step of insertDocstrings deletes or alters no line outside the
\* existing documentation block of the record on turn: all other lines are
\* still there afterwards, in their order.
C20_KeepsOtherLines ==
  [][(pc = "loop" /\ i >= 0)
     => IsSubseq(Keep(lines, 0, DocBlock(lines, Func, language)),
                 lines')]_vars


\* xs stands in ys as a run of consecutive elements
IsInfix(xs, ys) ==
  \E p \in 0..(Len(ys) - Len(xs)) : SubSeq(ys, p + 1, p + Len(xs)) = xs

\* the lines of record r in the array ls: its header and body, and before
\* them the comment block directly attached to a JavaScript header
RecordLines(ls, r, lang) ==
  LET k == JsBlock(ls, r.startLine)
      a == IF lang = "javascript" /\ IsBlock(ls, k, r.startLine) THEN k
           ELSE r.startLine
  IN SubSeq(ls, a + 1, r.endLine + 1)

\* C21: insertDocstrings leaves every record whose name has no entry
\* untouched: its documentation, header and body lines stand in the
\* returned text unchanged and next to each other, whatever entries the
\* other records have.
C21_UnnamedUntouched ==
  (pc \in {"returned", "threw"} /\ pass = 1) =>
    \A r \in Range(functions) :
      ~Named(r) =>
        /\ pc = "returned"
        /\ IsInfix(RecordLines(CodeLines, r, language), split(result, NL))


\* line k of the array ls ends the body of a Python header indented by ind:
\* it is not blank and not indented more than the header
EndsPyBody(ls, k, ind) ==
  trim(At(ls, k)) # <<>> /\ search(At(ls, k)) <= ind

RECURSIVE BraceEnd(_, _, _)
BraceEnd(ls, k, n) ==
  LET c == n + count(At(ls, k), "{") - count(At(ls, k), "}")
  IN IF k >= Len(ls) - 1 \/ c <= 0 THEN k ELSE BraceEnd(ls, k + 1, c)

\* C23: every record of parseJavaScriptCode whose header line opens a brace
\* (function declaration, arrow function with a block body, class) ends on
\* the first line at which the braces counted from the header line on are
\* balanced, or on the last line of the text.
C23_JsBodyExtent ==
  (pc = "extracted" /\ language = "javascript") =>
    \A r \in Range(functions) :
      includes(At(CodeLines, r.startLine), "{")
        => r.endLine = BraceEnd(CodeLines, r.startLine, 0)


\* the header shapes of parseJavaScriptCode: the name a line declares as a
\* function declaration, an arrow function or a method shorthand
JsShapes(line) ==
  {m.name : m \in {x \in {jsFuncPattern(line), arrowPattern(line),
                          methodPattern(line)} : x.ok}}

\* C24: every line of a JavaScript text that has one of the three header
\* shapes (function declaration, arrow function, method shorthand
\* `name(params) {`) and lies in no record's body gets a record of
\* parseJavaScriptCode with the name it declares.
C24_HeaderShapes ==
  (pc = "extracted" /\ language = "javascript") =>
    \A k \in 0..(Len(CodeLines) - 1) :
      (~\E r \in Range(functions) : InBody(r, k)) =>
        \A n \in JsShapes(At(CodeLines, k)) :
          \E q \in Range(functions) : q.startLine = k /\ q.name = n


\* C25: no record of parseJavaScriptCode starts on a line that lies behind
\* the header of another record and not behind the line on which the braces
\* opened by that header are balanced again.
C25_JsFlatExtraction ==
  (pc = "extracted" /\ language = "javascript") =>
    \A r \in Range(functions) :
      includes(At(CodeLines, r.startLine), "{") =>
        \A q \in Range(functions) :
          ~(r.startLine < q.startLine
            /\ q.startLine <= BraceEnd(CodeLines, r.startLine, 0))


\* line k (0-based) of the array ls, indented more than the header line h,
\* opens a triple-quoted string that is closed neither on that line nor on
\* any later line
Unterminated(ls, h, k) ==
  /\ k < Len(ls)
  /\ search(At(ls, k)) > search(At(ls, h))
  /\ \E d \in {Q3, A3} :
       /\ startsWith(trim(At(ls, k)), d)
       /\ count(At(ls, k), d) = 1
       /\ \A m \in (k + 1)..(Len(ls) - 1) : ~includes(At(ls, m), d)

\* C26: for a Python function whose first body line opens a triple-quoted
\* string that is never closed, parsePythonCode and
\* CodeParser.extractPythonFunctions report no documentation (undefined or
\* the empty string).
C26_UnterminatedDocstring ==
  /\ (pc = "extracted" /\ language = "python") =>
       \A r \in Range(functions) :
         (r.type = "function"
          /\ Unterminated(CodeLines, r.startLine, r.startLine + 1))
           => ~Truthy(r.docstring)
  /\ (pc = "filed" /\ language = "python") =>
       \A r \in Range(file) :
         Unterminated(splitLines(code), r.startLine - 1, r.startLine)
           => r.docstring = <<>>


\* the line is `def name(params) -> T:` with optional indentation: a def
\* header with a return annotation
IsAnnotatedDef(line) ==
  LET p == CloseThen(line, 1, "->")
      t == trim(line)
  IN /\ startsWith(t, "def")
     /\ p > 0
     /\ endsWith(t, ":")
     /\ count(line, ":") = 1
     /\ count(line, ")") = 1

\* the header line without its annotation
Unannotated(line) ==
  SubSeq(line, 1, CloseThen(line, 1, "->")) \o <<":">>

\* C27: a def header with a return annotation that lies in no record's body
\* gets a record with its name from parsePythonCode and from
\* CodeParser.extractPythonFunctions, like the same line without the
\* annotation.
C27_ReturnAnnotation ==
  /\ (pc = "extracted" /\ language = "python") =>
       \A k \in 0..(Len(CodeLines) - 1) :
         (IsAnnotatedDef(At(CodeLines, k))
          /\ ~\E r \in Range(functions) : InBody(r, k))
           => \E q \in Range(functions) :
                /\ q.startLine = k
                /\ q.name = pyFuncPattern(Unannotated(At(CodeLines, k))).name
  /\ (pc = "filed" /\ language = "python") =>
       \A k \in 0..(Len(splitLines(code)) - 1) :
         (IsAnnotatedDef(At(splitLines(code), k))
          /\ ~\E r \in Range(file) : r.startLine < k + 1 /\ k + 1 <= r.endLine)
           => \E q \in Range(file) :
                /\ q.startLine = k + 1
                /\ q.name
                     = Some(pyFuncPattern(Unannotated(At(splitLines(code), k))).name)


\* C28: every iteration of the scan loops of parsePythonCode,
\* parseJavaScriptCode, extractPythonFunctions and
\* extractJavaScriptFunctions ends the scan (by a throw) or moves the line
\* index forward by at least one and not beyond the number of lines, and
\* the scan returns once the index has reached the number of lines.
C28_ScanAdvances ==
  [][pc = "scan" =>
       IF i < Len(lines)
       THEN \/ pc' = "threw"
            \/ pc' = "scan" /\ i < i' /\ i' <= Len(lines)
       ELSE pc' = "scanned"]_vars

\* the scan has just recorded a definition with an empty body: the line
\* before the index is a header and the line at the index is one as well
C28_Witness ==
  /\ pc = "scan"
  /\ 0 < i /\ i < Len(lines)
  /\ functions # <<>>
  /\ functions[Len(functions)].startLine \in {i - 1, i}
  /\ functions[Len(functions)].endLine = functions[Len(functions)].startLine
  /\ ScanMatches(scanner, lines, i - 1)
  /\ ScanMatches(scanner, lines, i)


\* C29: batchGenerateDocstrings returns one entry per function, and the
\* entry at each position is the outcome of the generation for the function
\* at that position, whatever the order in which the tasks settled.
C29_ResultsInOrder ==
  pc = "returned" =>
    /\ Len(results) = Len(batchFunctions)
    /\ \A k \in 1..Len(results) : results[k] = entryOf(tasks[k].outcome)

\* the number of tasks started and not yet settled
InFlight == Cardinality({k \in 1..Len(tasks) : tasks[k].state = "running"})

====
